---- MODULE Spec2Model ----
(***************************************************************************)
(* Model of src/main.py (photo-sorter): sort_photos() walks the source     *)
(* tree and carries every discovered file through classification, date     *)
(* resolution, bucket assignment, hashing, in-run dedup, filename-conflict  *)
(* resolution and commit (move or HEIC->JPEG conversion).                   *)
(*                                                                         *)
(* Files are records [stem, ext, content]; a content value stands for the  *)
(* byte content of a file and is its own SHA-256 fingerprint.  The          *)
(* destination tree is a function from <<folder, name>> to content.        *)
(* Failures of filesystem and codec calls are injected by the environment, *)
(* at most MaxFaults of them per execution.                                *)
(***************************************************************************)
EXTENDS Integers, Sequences, FiniteSets, TLC

\* ------------------------------------------------------------------ bounds
MaxFiles == 2
MaxFaults == 2
MaxTagLen == 11

\* --------------------------------------------------------- program constants
NO_DATE_DIR == "no_date"
ARCHIVES_DIR == "archives"
ERROR_DIR == "errors"

IMAGE_EXTENSIONS == {".jpg", ".jpeg", ".png", ".gif", ".tiff", ".bmp", ".heic", ".heif"}
VIDEO_EXTENSIONS == {".mp4", ".avi", ".mov", ".wmv", ".mkv", ".flv", ".mpeg", ".mpg", ".m4v"}
HEIC_EXTENSIONS == {".heic", ".heif"}
ARCHIVE_EXTENSIONS == {".zip", ".rar", ".7z", ".tar", ".gz", ".bz2", ".xz",
                       ".tar.gz", ".tar.bz2", ".tar.xz"}

\* Python's None (a capture year is 4 characters, so it never equals this)
None == "<None>"

\* ------------------------------------------------------------ input universe
Stems == {"img"}
Exts == {".jpg", ".heic", ".mp4", ".zip", ".txt"}
Contents == {"A", "B", "C", "D"}

NoTag == <<>>

\* What the decoder makes of a content: "ok", "unidentified"
\* (UnidentifiedImageError) or "error" (any other exception of open/load).
DecodeOf(c) == IF c = "C" THEN "unidentified" ELSE "ok"

\* ---- tag values and sizes for walks over a single file
\* A str tag value is a sequence of characters; a bytes value is a sequence
\* of byte tokens.  MkTag builds the str value with year characters y, the
\* separators s5 and s8 at Python indexes 4 and 7, "0" elsewhere, cut to
\* length n.
MkTag(y, s5, s8, n) ==
  [i \in 1..n |-> IF i <= 4 THEN y[i] ELSE IF i = 5 THEN s5
                   ELSE IF i = 8 THEN s8 ELSE "0"]

\* b"2021:06:15"
BytesTag == <<"0x32", "0x30", "0x32", "0x31", "0x3a", "0x30", "0x36", "0x3a", "0x31", "0x35">>

TagLens == {4} \cup 9..MaxTagLen

\* values of tag 36867 and of tag 306
DtoValues ==
  {NoTag, BytesTag}
    \cup {MkTag(y, s5, s8, n) : y \in {<<"2","0","2","1">>, <<" "," "," "," ">>},
                                s5 \in {":", "-"}, s8 \in {":", "-"}, n \in TagLens}

DtValues ==
  {NoTag} \cup {MkTag(<<"1","9","9","9">>, s5, s8, n) :
                  s5 \in {":", "-"}, s8 \in {":", "-"}, n \in {9, 10}}

RECURSIVE Spell(_)
Spell(v) == IF v = NoTag THEN "" ELSE Head(v) \o Spell(Tail(v))

\* a content is named after the tags it carries
TagContent(dto, dt) == "dto=" \o Spell(dto) \o ",dt=" \o Spell(dt)

TagsByContent ==
  [c \in {TagContent(p[1], p[2]) : p \in DtoValues \X DtValues} |->
     CHOOSE p \in DtoValues \X DtValues : TagContent(p[1], p[2]) = c]

\* byte sizes around the tier limits; a content is named after its size
SizeSamples == {0, 524287, 524288, 1048575, 1048576, 2097151, 2097152,
                5242879, 5242880, 10485759, 10485760, 10485761}

SizeContent(n) == "size=" \o ToString(n)

SizeByContent == [c \in {SizeContent(n) : n \in SizeSamples} |->
                    CHOOSE n \in SizeSamples : SizeContent(n) = c]

\* EXIF tags 36867 (DateTimeOriginal) and 306 (DateTime) of a content,
\* as sequences of characters.
\*   A: both tags valid; B: DateTimeOriginal malformed, DateTime valid;
\*   C, D: no tags.
ExifOf(c) == CASE c = "A" -> [dto |-> <<"2","0","2","0",":","0","6",":","1","5">>,
                              dt  |-> <<"2","0","1","9",":","0","1",":","0","1">>]
               [] c = "B" -> [dto |-> <<"2","0","1","8","-","0","6","-","1","5">>,
                              dt  |-> <<"2","0","2","0",":","0","1",":","0","1">>]
               [] c \in DOMAIN TagsByContent ->
                    [dto |-> TagsByContent[c][1], dt |-> TagsByContent[c][2]]
               [] OTHER   -> [dto |-> NoTag, dt |-> NoTag]

\* st_size of a content, in bytes
SizeOf(c) == IF c \in {"A", "B"} THEN 300000
             ELSE IF c \in DOMAIN SizeByContent THEN SizeByContent[c]
             ELSE 700000

\* The bytes img.save(..., "JPEG", quality=95) writes for a decodable source
Jpeg(c) == "jpeg(" \o c \o ")"

\* Files of the walk.  Content matters to an image through its decoding and
\* tags (A dated, C undecodable, D undated); to any other file only through
\* its fingerprint, so two contents for one kind of them are enough.
Universe ==
  [stem : Stems, ext : {".jpg", ".heic"}, content : {"A", "C", "D"}]
    \cup [stem : Stems, ext : {".zip"}, content : {"A", "B"}]
    \cup [stem : Stems, ext : {".mp4", ".txt"}, content : {"A"}]

\* The files of single-file walks: images over every pair of tag values,
\* images and videos over every sampled size, and the files above.
OneFileUniverse ==
  [stem : Stems, ext : {".jpg"}, content : DOMAIN TagsByContent]
    \cup [stem : Stems, ext : {".jpg", ".mp4"}, content : DOMAIN SizeByContent]
    \cup Universe

\* Destination trees found at the start of a run: empty, one file, or the
\* files img.jpg and img_1.jpg of one folder.
ExistingFolders == {"2020", "no_date/small_0.5-1MB", "no_date/tiny_under_0.5MB",
                    ARCHIVES_DIR, ERROR_DIR}

ExistingTrees ==
  {<<>>}
    \cup {(<<f, n>> :> c) : f \in ExistingFolders,
                            n \in {"img.jpg", "img.zip", "img.mp4"}, c \in {"A", "D"}}
    \cup {(<<f, "img.jpg">> :> c1) @@ (<<f, "img_1.jpg">> :> c2) :
            f \in ExistingFolders, c1 \in {"A", "D"}, c2 \in {"A", "D"}}

\* ------------------------------------------------------------ pure helpers
FileName(f) == f.stem \o f.ext

JoinFolder(parent, child) == parent \o "/" \o child

\* mutant: the limits are compared with <=
get_file_size_category_Inclusive(size_bytes, statFails) ==
  IF statFails THEN "unknown_size"
  ELSE IF 2 * size_bytes <= 1048576 THEN "tiny_under_0.5MB"
  ELSE IF size_bytes <= 1048576 THEN "small_0.5-1MB"
  ELSE IF size_bytes <= 2 * 1048576 THEN "medium_1-2MB"
  ELSE IF size_bytes <= 5 * 1048576 THEN "large_2-5MB"
  ELSE IF size_bytes <= 10 * 1048576 THEN "xlarge_5-10MB"
  ELSE "huge_over_10MB"

\* lines 70-93; size_mb < 0.5 is 2 * size_bytes < 1024 * 1024
get_file_size_category(size_bytes, statFails) ==
  IF statFails THEN "unknown_size"
  ELSE IF 2 * size_bytes < 1048576 THEN "tiny_under_0.5MB"
  ELSE IF size_bytes < 1048576 THEN "small_0.5-1MB"
  ELSE IF size_bytes < 2 * 1048576 THEN "medium_1-2MB"
  ELSE IF size_bytes < 5 * 1048576 THEN "large_2-5MB"
  ELSE IF size_bytes < 10 * 1048576 THEN "xlarge_5-10MB"
  ELSE "huge_over_10MB"

\* isinstance(date_str, str)
IsStr(date_str) == \A i \in DOMAIN date_str : Len(date_str[i]) = 1

\* mutant: only the first separator is tested
ValidDateStr_OneColon(date_str) ==
  /\ date_str # NoTag
  /\ IsStr(date_str)
  /\ Len(date_str) >= 10
  /\ date_str[5] = ":"

\* the test of lines 115-116 / 122-123 on one tag value
ValidDateStr(date_str) ==
  /\ date_str # NoTag
  /\ IsStr(date_str)
  /\ Len(date_str) >= 10
  /\ date_str[5] = ":"
  /\ date_str[8] = ":"

YearOf(date_str) == date_str[1] \o date_str[2] \o date_str[3] \o date_str[4]

\* mutant: an undecodable image is reported as "error"
get_date_taken_Strict(exif, exists, decode) ==
  IF ~exists \/ decode # "ok" THEN "error"
  ELSE IF ValidDateStr(exif.dto) THEN YearOf(exif.dto)
  ELSE IF ValidDateStr(exif.dt) THEN YearOf(exif.dt)
  ELSE None

\* get_date_taken for an image file: exists = the file is still there,
\* decode = what Image.open/load do with it.
get_date_taken(exif, exists, decode) ==
  IF ~exists THEN "error"
  ELSE IF decode # "ok" THEN None
  ELSE IF ValidDateStr(exif.dto) THEN YearOf(exif.dto)
  ELSE IF ValidDateStr(exif.dt) THEN YearOf(exif.dt)
  ELSE None

\* hashes_in_destination.get(folder, set())
HashesOf(hashes, folder) == IF folder \in DOMAIN hashes THEN hashes[folder] ELSE {}

\* mutant: the folder's set is replaced by an empty one
SetDefault_Clear(hashes, folder) == (folder :> {}) @@ hashes

\* hashes_in_destination.setdefault(folder, set())
SetDefault(hashes, folder) ==
  IF folder \in DOMAIN hashes THEN hashes ELSE (folder :> {}) @@ hashes

\* mutant: the fingerprint of a committed file is not remembered
RecordHash_Forget(hashes, folder, h) == SetDefault(hashes, folder)

\* hashes_in_destination.setdefault(folder, set()).add(h)
RecordHash(hashes, folder, h) ==
  (folder :> (HashesOf(hashes, folder) \cup {h})) @@ hashes

\* mutant: the fingerprint is put into the set as soon as it is looked up
LookupHashes_Reserve(hashes, folder, h) == RecordHash(hashes, folder, h)

\* lines 291-295 for a fingerprint that is not in the set: the lookup
\* creates the folder's set if need be and adds nothing to it
LookupHashes(hashes, folder, h) == SetDefault(hashes, folder)

\* mutant: the fingerprint is looked up in the sets of all folders
IsDuplicateInRun_AnyFolder(hashes, folder, h) ==
  \E f \in DOMAIN hashes : h \in hashes[f]

\* current_file_hash in target_hashes (line 295)
IsDuplicateInRun(hashes, folder, h) == h \in HashesOf(hashes, folder)

\* Path.exists() of a destination path
Exists(tree, path) == path \in DOMAIN tree

\* shutil.move / img.save onto a path: the path then holds the content
\* (os.rename and copy2 both replace an existing file)
WriteFile(tree, path, c) == (path :> c) @@ tree

\* f"{stem}_{counter}{suffix}"
RenamedName(stem, k, suffix) == stem \o "_" \o ToString(k) \o suffix

\* the while loop of lines 484-488: first free name in the errors folder
RECURSIVE ErrorDestFrom(_, _, _, _)
ErrorDestFrom(tree, f, error_dest, k) ==
  IF Exists(tree, error_dest)
  THEN ErrorDestFrom(tree, f, <<ERROR_DIR, RenamedName(f.stem, k, f.ext)>>, k + 1)
  ELSE error_dest

ErrorDest(tree, f) == ErrorDestFrom(tree, f, <<ERROR_DIR, FileName(f)>>, 1)

IsNoDateFolder(folder) == \E t \in {"tiny_under_0.5MB", "small_0.5-1MB", "medium_1-2MB",
                                    "large_2-5MB", "xlarge_5-10MB", "huge_over_10MB",
                                    "unknown_size"} : folder = JoinFolder(NO_DATE_DIR, t)

ZeroCounts == [moved_count |-> 0, video_moved_count |-> 0, heic_converted_count |-> 0,
               no_date_count |-> 0, archive_moved_count |-> 0,
               deleted_non_media_count |-> 0, error_count |-> 0, skipped_count |-> 0,
               duplicate_deleted_count |-> 0]

Inc(c, field) == [c EXCEPT ![field] = @ + 1]

\* ------------------------------------------------------------------ state
VARIABLES
  files,                  \* the files os.walk yields, in walk order
  srcExists,              \* srcExists[i]: files[i] is still at its source path
  dest,                   \* the destination tree: <<folder, name>> -> content
  hashes_in_destination,  \* folder -> set of fingerprints committed this run
  count,                  \* the run counters
  idx,                    \* position of the walk
  pc,                     \* position inside the loop body
  exc,                    \* the exception being propagated to the handlers
  media_type, year_or_status, target_folder, current_file_hash,
  dest_path_final,        \* the name inside target_folder (the folder part is target_folder)
  counter,
  run,                    \* 1 = first invocation, 2 = second invocation
  runState,               \* "running", "done", "aborted"
  faultsLeft,             \* failures the environment may still inject
  outcome                 \* outcome[i]: what the log says happened to files[i]

vars == <<files, srcExists, dest, hashes_in_destination, count, idx, pc, exc,
          media_type, year_or_status, target_folder, current_file_hash,
          dest_path_final, counter, run, runState, faultsLeft, outcome>>

Pending == [result |-> "pending", folder |-> None, hash |-> None,
            placed |-> None, name |-> None, conflict |-> FALSE]

StartPc(fs) == IF Len(fs) = 0 THEN "summary" ELSE "classify"

FileSeqs == UNION {[1..n -> Universe] : n \in 0..MaxFiles}

\* The state at the top of the walk (line 199), the destination tree apart
Start ==
  /\ srcExists = [i \in DOMAIN files |-> TRUE]
  /\ hashes_in_destination = <<>>
  /\ count = ZeroCounts
  /\ idx = 1
  /\ pc = StartPc(files)
  /\ exc = None
  /\ media_type = "unknown"
  /\ year_or_status = None
  /\ target_folder = None
  /\ current_file_hash = None
  /\ dest_path_final = None
  /\ counter = 1
  /\ run = 1
  /\ runState = "running"
  /\ faultsLeft = MaxFaults
  /\ outcome = [i \in DOMAIN files |-> Pending]

\* SOURCE_DIR exists, the destination root holds only the empty folders of
\* lines 173-176
Init == files \in FileSeqs /\ dest = <<>> /\ Start

\* a walk that finds exactly one file
InitOneFile == files \in [1..1 -> OneFileUniverse] /\ dest = <<>> /\ Start

\* a walk that finds exactly one file while DEST_DIR already holds files
\* (the mkdir calls of lines 173-176 accept existing folders)
InitExisting == files \in [1..1 -> Universe] /\ dest \in ExistingTrees /\ Start

\* the file being processed
Cur == files[idx]

IsHeic == media_type = "image" /\ Cur.ext \in HEIC_EXTENSIONS

\* DEST_DIR in source_path.parents (line 209): the walk starts at SOURCE_DIR,
\* a sibling of DEST_DIR, so no walked path lies under DEST_DIR.
InDestination(f) == FALSE

FaultChoices == IF faultsLeft > 0 THEN {FALSE, TRUE} ELSE {FALSE}

B2N(b) == IF b THEN 1 ELSE 0

\* `continue` / end of the loop body: on to the next file of the walk
Continue ==
  /\ idx' = idx + 1
  /\ pc' = IF idx + 1 > Len(files) THEN "summary" ELSE "classify"
  /\ exc' = None
  /\ media_type' = "unknown"
  /\ year_or_status' = None
  /\ target_folder' = None
  /\ current_file_hash' = None
  /\ dest_path_final' = None
  /\ counter' = 1

\* an exception leaves the try block for the handlers of lines 468-492
Raise(e) ==
  /\ pc' = "except"
  /\ exc' = e
  /\ UNCHANGED <<idx, media_type, year_or_status, target_folder, current_file_hash,
                 dest_path_final, counter>>

Logged(res, placed, name) ==
  outcome' = [outcome EXCEPT ![idx] = [@ EXCEPT !.result = res, !.placed = placed,
                                                !.name = name]]

Gone == [srcExists EXCEPT ![idx] = FALSE]

\* mutant: the "error" status is not told apart from a capture year
ResolveMediaBucket_NoErrorCase(status, size_category, c) ==
  IF status # None THEN <<status, c>>
  ELSE <<JoinFolder(NO_DATE_DIR, size_category), Inc(c, "no_date_count")>>

\* year_or_status -> target folder and counters (lines 254-273)
\* returns <<target_folder, counts>>
ResolveMediaBucket(status, size_category, c) ==
  IF status = "error" THEN <<ERROR_DIR, Inc(c, "error_count")>>
  ELSE IF status # None THEN <<status, c>>
  ELSE <<JoinFolder(NO_DATE_DIR, size_category), Inc(c, "no_date_count")>>

\* mutant: a failed removal of a non-media file is counted as a deletion
CountNonMedia_AlwaysDeleted(c, removed) == Inc(c, "deleted_non_media_count")

\* lines 239-251: os.remove of a non-media file; OSError is counted as an error
CountNonMedia(c, removed) ==
  IF removed THEN Inc(c, "deleted_non_media_count") ELSE Inc(c, "error_count")

\* lines 207-273: skip check, classification, date, bucket
Classify ==
  /\ runState = "running"
  /\ pc = "classify"
  /\ UNCHANGED <<files, dest, hashes_in_destination, run, runState>>
  /\ \/ /\ InDestination(Cur)
        /\ count' = Inc(count, "skipped_count")
        /\ Logged("skipped", None, None)
        /\ Continue
        /\ UNCHANGED <<srcExists, faultsLeft>>
     \/ /\ ~InDestination(Cur)
        /\ Cur.ext \in IMAGE_EXTENSIONS
        /\ \E exifFault \in FaultChoices, statFault \in FaultChoices :
             LET decode == IF exifFault THEN "error" ELSE DecodeOf(Cur.content)
                 status == get_date_taken(ExifOf(Cur.content), srcExists[idx], decode)
                 size_category == get_file_size_category(SizeOf(Cur.content), statFault)
                 r == ResolveMediaBucket(status, size_category, count)
             IN /\ exifFault => srcExists[idx]
                /\ statFault => status = None
                /\ B2N(exifFault) + B2N(statFault) <= faultsLeft
                /\ faultsLeft' = faultsLeft - B2N(exifFault) - B2N(statFault)
                /\ media_type' = "image"
                /\ year_or_status' = status
                /\ target_folder' = r[1]
                /\ count' = r[2]
        /\ pc' = "hash"
        /\ UNCHANGED <<idx, exc, current_file_hash, dest_path_final, counter,
                       srcExists, outcome>>
     \/ /\ ~InDestination(Cur)
        /\ Cur.ext \notin IMAGE_EXTENSIONS
        /\ Cur.ext \in VIDEO_EXTENSIONS
        /\ \E statFault \in FaultChoices :
             LET size_category == get_file_size_category(SizeOf(Cur.content),
                                                         statFault \/ ~srcExists[idx])
                 r == ResolveMediaBucket(None, size_category, count)
             IN /\ statFault => srcExists[idx]
                /\ faultsLeft' = faultsLeft - B2N(statFault)
                /\ media_type' = "video"
                /\ year_or_status' = None
                /\ target_folder' = r[1]
                /\ count' = r[2]
        /\ pc' = "hash"
        /\ UNCHANGED <<idx, exc, current_file_hash, dest_path_final, counter,
                       srcExists, outcome>>
     \/ /\ ~InDestination(Cur)
        /\ Cur.ext \notin IMAGE_EXTENSIONS \cup VIDEO_EXTENSIONS
        /\ Cur.ext \in ARCHIVE_EXTENSIONS
        /\ media_type' = "archive"
        /\ year_or_status' = None
        /\ target_folder' = ARCHIVES_DIR
        /\ count' = Inc(count, "archive_moved_count")
        /\ pc' = "hash"
        /\ UNCHANGED <<idx, exc, current_file_hash, dest_path_final, counter,
                       srcExists, outcome, faultsLeft>>
     \/ /\ ~InDestination(Cur)
        /\ Cur.ext \notin IMAGE_EXTENSIONS \cup VIDEO_EXTENSIONS \cup ARCHIVE_EXTENSIONS
        /\ \E removeFault \in FaultChoices :
             /\ removeFault => srcExists[idx]
             /\ faultsLeft' = faultsLeft - B2N(removeFault)
             /\ count' = CountNonMedia(count, srcExists[idx] /\ ~removeFault)
             /\ IF srcExists[idx] /\ ~removeFault
                THEN /\ srcExists' = Gone
                     /\ Logged("deleted_non_media", None, None)
                ELSE /\ srcExists' = srcExists
                     /\ Logged("delete_failed", None, None)
        /\ Continue

\* calculate_hash: the fingerprint, or None when the file cannot be read
calculate_hash(c, readable) == IF readable THEN c ELSE None

\* mutant: the folder resolved before hashing is kept
AfterHash_KeepFolder(h, folder, c) ==
  IF h = None THEN <<folder, Inc(c, "error_count")>> ELSE <<folder, c>>

\* lines 282-288: without a fingerprint the target becomes ERROR_DIR and an
\* error is counted.  Returns <<target_folder, counts>>
AfterHash(h, folder, c) ==
  IF h = None THEN <<ERROR_DIR, Inc(c, "error_count")>> ELSE <<folder, c>>

\* output name before conflict resolution (lines 311-312 / 406)
DesiredName(f, heic) == IF heic THEN f.stem \o ".jpg" ELSE FileName(f)

\* mutant: the suffix counter starts one too high
CandidateName_SkipOne(f, heic, k) ==
  IF heic THEN RenamedName(f.stem, k + 1, ".jpg") ELSE RenamedName(f.stem, k + 1, f.ext)

\* the renamed candidate of lines 338 / 429-431
CandidateName(f, heic, k) ==
  IF heic THEN RenamedName(f.stem, k, ".jpg") ELSE RenamedName(f.stem, k, f.ext)

\* mutant: the two hashes are compared even if the existing one is None
MatchesExisting_NoneMatches(existing_file_hash, file_hash) ==
  file_hash = existing_file_hash

\* the duplicate test of lines 319-322 / 410-413
MatchesExisting(existing_file_hash, file_hash) ==
  existing_file_hash # None /\ file_hash = existing_file_hash

\* os.remove(source_path) of a detected duplicate (lines 299-306, 326-333, 417-424)
DeleteDuplicate(h) ==
  \E removeFault \in FaultChoices :
    /\ faultsLeft' = faultsLeft - B2N(removeFault)
    /\ IF removeFault
       THEN /\ srcExists' = srcExists
            /\ count' = Inc(count, "error_count")
       ELSE /\ srcExists' = Gone
            /\ count' = Inc(count, "duplicate_deleted_count")
    /\ outcome' = [outcome EXCEPT ![idx] =
          [@ EXCEPT !.result = IF removeFault THEN "duplicate_delete_failed"
                               ELSE "duplicate_deleted",
                    !.folder = target_folder, !.hash = h]]

\* lines 276-307 and the loop set-up of lines 311-313 / 406-407
Hash ==
  /\ runState = "running"
  /\ pc = "hash"
  /\ UNCHANGED <<files, dest, run, runState>>
  /\ \/ \* target_folder.mkdir raises
        /\ faultsLeft > 0
        /\ faultsLeft' = faultsLeft - 1
        /\ \E e \in {"PermissionError", "Exception"} : Raise(e)
        /\ UNCHANGED <<srcExists, hashes_in_destination, count, outcome>>
     \/ \* the source cannot be hashed (ERROR_DIR exists since line 176, so the
        \* mkdir of line 287 does nothing)
        /\ \E hashFault \in FaultChoices :
             /\ hashFault => srcExists[idx]
             /\ hashFault \/ ~srcExists[idx]
             /\ faultsLeft' = faultsLeft - B2N(hashFault)
        /\ current_file_hash' = calculate_hash(Cur.content, FALSE)
        /\ target_folder' = AfterHash(current_file_hash', target_folder, count)[1]
        /\ count' = AfterHash(current_file_hash', target_folder, count)[2]
        /\ outcome' = [outcome EXCEPT ![idx] = [@ EXCEPT !.folder = target_folder',
                                                         !.hash = None]]
        /\ dest_path_final' = DesiredName(Cur, IsHeic)
        /\ counter' = 1
        /\ pc' = "conflict"
        /\ UNCHANGED <<srcExists, hashes_in_destination, idx, exc, media_type,
                       year_or_status>>
     \/ \* hashed, and the fingerprint is already in the folder's set
        /\ srcExists[idx]
        /\ IsDuplicateInRun(hashes_in_destination, target_folder,
                            calculate_hash(Cur.content, TRUE))
        /\ hashes_in_destination' = SetDefault(hashes_in_destination, target_folder)
        /\ DeleteDuplicate(calculate_hash(Cur.content, TRUE))
        /\ Continue
     \/ \* hashed, not seen in this folder during this run
        /\ srcExists[idx]
        /\ ~IsDuplicateInRun(hashes_in_destination, target_folder,
                             calculate_hash(Cur.content, TRUE))
        /\ current_file_hash' = calculate_hash(Cur.content, TRUE)
        /\ target_folder' = AfterHash(current_file_hash', target_folder, count)[1]
        /\ count' = AfterHash(current_file_hash', target_folder, count)[2]
        /\ hashes_in_destination' =
             LookupHashes(hashes_in_destination, target_folder, current_file_hash')
        /\ outcome' = [outcome EXCEPT ![idx] = [@ EXCEPT !.folder = target_folder',
                                                         !.hash = current_file_hash']]
        /\ dest_path_final' = DesiredName(Cur, IsHeic)
        /\ counter' = 1
        /\ pc' = "conflict"
        /\ UNCHANGED <<srcExists, idx, exc, media_type, year_or_status, faultsLeft>>

\* one iteration of the while loops of lines 316-343 / 408-436
Conflict ==
  /\ runState = "running"
  /\ pc = "conflict"
  /\ Exists(dest, <<target_folder, dest_path_final>>)
  /\ UNCHANGED <<files, dest, hashes_in_destination, run, runState>>
  /\ \E existingFault \in FaultChoices :
       LET existing_file_hash ==
             calculate_hash(dest[<<target_folder, dest_path_final>>], ~existingFault)
       IN IF MatchesExisting(existing_file_hash, current_file_hash)
          THEN /\ DeleteDuplicate(current_file_hash)
               /\ Continue
          ELSE /\ faultsLeft' = faultsLeft - B2N(existingFault)
               /\ dest_path_final' = CandidateName(Cur, IsHeic, counter)
               /\ counter' = counter + 1
               /\ outcome' = [outcome EXCEPT ![idx] = [@ EXCEPT !.conflict =
                     @ \/ (counter = 1 /\ dest[<<target_folder, dest_path_final>>]
                                            # Cur.content)]]
               /\ UNCHANGED <<srcExists, count, idx, pc, exc, media_type,
                              year_or_status, target_folder, current_file_hash>>

\* counters after a successful commit (lines 377-382 / 447-459)
CountCommit(c, mtype, folder) ==
  IF IsNoDateFolder(folder) \/ folder = ERROR_DIR THEN c
  ELSE IF mtype = "video" THEN Inc(c, "video_moved_count")
  ELSE IF mtype = "image" THEN Inc(c, "moved_count")
  ELSE c

\* mutant: a failed removal of the converted original is counted as an error
AfterConvertDelete_CountsError(c, removeFails) ==
  IF removeFails THEN Inc(c, "error_count") ELSE c

\* lines 364-370: a failed os.remove of the converted original is only logged
AfterConvertDelete(c, removeFails) == c

\* lines 345-403: HEIC conversion at the resolved name
Convert ==
  /\ runState = "running"
  /\ pc = "conflict"
  /\ IsHeic
  /\ ~Exists(dest, <<target_folder, dest_path_final>>)
  /\ UNCHANGED <<files, run, runState>>
  /\ \/ \* Image.open + img.save succeed
        /\ srcExists[idx]
        /\ DecodeOf(Cur.content) = "ok"
        /\ dest' = WriteFile(dest, <<target_folder, dest_path_final>>, Jpeg(Cur.content))
        /\ \E removeFault \in FaultChoices :
             /\ faultsLeft' = faultsLeft - B2N(removeFault)
             /\ srcExists' = IF removeFault THEN srcExists ELSE Gone
             /\ count' = CountCommit(
                           AfterConvertDelete(Inc(count, "heic_converted_count"),
                                              removeFault),
                           media_type, target_folder)
        /\ hashes_in_destination' =
             RecordHash(hashes_in_destination, target_folder, current_file_hash)
        /\ Logged("converted", target_folder, dest_path_final)
     \/ \* the conversion raises; the original goes to ERROR_DIR under its own name
        /\ \E convertFault \in FaultChoices, moveFault \in FaultChoices :
             /\ convertFault => (srcExists[idx] /\ DecodeOf(Cur.content) = "ok")
             /\ convertFault \/ ~srcExists[idx] \/ DecodeOf(Cur.content) # "ok"
             /\ moveFault => srcExists[idx]
             /\ B2N(convertFault) + B2N(moveFault) <= faultsLeft
             /\ faultsLeft' = faultsLeft - B2N(convertFault) - B2N(moveFault)
             /\ IF srcExists[idx] /\ ~moveFault
                THEN /\ dest' = WriteFile(dest, <<ERROR_DIR, FileName(Cur)>>, Cur.content)
                     /\ srcExists' = Gone
                     /\ Logged("convert_failed_relocated", ERROR_DIR, FileName(Cur))
                ELSE /\ dest' = dest
                     /\ srcExists' = srcExists
                     /\ Logged("convert_failed_in_place", None, None)
        /\ count' = Inc(count, "error_count")
        /\ hashes_in_destination' = hashes_in_destination
  /\ Continue

\* lines 438-466: shutil.move to the resolved name
Move ==
  /\ runState = "running"
  /\ pc = "conflict"
  /\ ~IsHeic
  /\ ~Exists(dest, <<target_folder, dest_path_final>>)
  /\ UNCHANGED <<files, run, runState>>
  /\ \/ \* the source is gone
        /\ ~srcExists[idx]
        /\ Raise("FileNotFoundError")
        /\ UNCHANGED <<srcExists, dest, hashes_in_destination, count, faultsLeft, outcome>>
     \/ \* the move fails
        /\ srcExists[idx]
        /\ faultsLeft > 0
        /\ faultsLeft' = faultsLeft - 1
        /\ \E e \in {"PermissionError", "Exception"} : Raise(e)
        /\ UNCHANGED <<srcExists, dest, hashes_in_destination, count, outcome>>
     \/ \* the move succeeds
        /\ srcExists[idx]
        /\ dest' = WriteFile(dest, <<target_folder, dest_path_final>>, Cur.content)
        /\ srcExists' = Gone
        /\ count' = CountCommit(count, media_type, target_folder)
        /\ hashes_in_destination' =
             IF current_file_hash # None
             THEN RecordHash(hashes_in_destination, target_folder, current_file_hash)
             ELSE hashes_in_destination
        /\ Logged("moved", target_folder, dest_path_final)
        /\ faultsLeft' = faultsLeft
        /\ Continue

\* the handlers of lines 468-492
Except ==
  /\ runState = "running"
  /\ pc = "except"
  /\ UNCHANGED <<files, hashes_in_destination, run>>
  /\ \/ /\ exc = "FileNotFoundError"
        /\ count' = Inc(count, "skipped_count")
        /\ Logged("not_found", None, None)
        /\ Continue
        /\ UNCHANGED <<srcExists, dest, runState, faultsLeft>>
     \/ /\ exc = "PermissionError"
        /\ count' = Inc(count, "error_count")
        /\ Logged("permission_denied", None, None)
        /\ Continue
        /\ UNCHANGED <<srcExists, dest, runState, faultsLeft>>
     \/ /\ exc = "Exception"
        /\ count' = Inc(count, "error_count")
        /\ \/ /\ ~srcExists[idx]
              /\ Logged("error_in_place", None, None)
              /\ Continue
              /\ UNCHANGED <<srcExists, dest, runState, faultsLeft>>
           \/ /\ srcExists[idx]
              /\ dest' = WriteFile(dest, ErrorDest(dest, Cur), Cur.content)
              /\ srcExists' = Gone
              /\ Logged("error_relocated", ERROR_DIR, ErrorDest(dest, Cur)[2])
              /\ Continue
              /\ UNCHANGED <<runState, faultsLeft>>
           \/ \* shutil.move of line 489 raises inside the handler: nothing catches it
              /\ srcExists[idx]
              /\ faultsLeft > 0
              /\ faultsLeft' = faultsLeft - 1
              /\ runState' = "aborted"
              /\ Logged("aborted", None, None)
              /\ UNCHANGED <<srcExists, dest, idx, pc, exc, media_type, year_or_status,
                             target_folder, current_file_hash, dest_path_final, counter>>

\* a discovered file disappears before the loop reaches it
Vanish ==
  /\ runState = "running"
  /\ pc = "classify"
  /\ srcExists[idx]
  /\ faultsLeft > 0
  /\ faultsLeft' = faultsLeft - 1
  /\ srcExists' = Gone
  /\ UNCHANGED <<files, dest, hashes_in_destination, count, idx, pc, exc, media_type,
                 year_or_status, target_folder, current_file_hash, dest_path_final,
                 counter, run, runState, outcome>>

\* lines 494-509: the walk is over, the summary is logged
Summary ==
  /\ runState = "running"
  /\ pc = "summary"
  /\ runState' = "done"
  /\ UNCHANGED <<files, srcExists, dest, hashes_in_destination, count, idx, pc, exc,
                 media_type, year_or_status, target_folder, current_file_hash,
                 dest_path_final, counter, run, faultsLeft, outcome>>

\* main() is invoked again over a copy of the same input; the destination
\* tree of the first invocation is still there (lines 172-192).  Second
\* invocations are explored after failure-free first invocations.
Rerun ==
  /\ runState = "done"
  /\ run = 1
  /\ faultsLeft = MaxFaults
  /\ run' = 2
  /\ runState' = "running"
  /\ srcExists' = [i \in DOMAIN files |-> TRUE]
  /\ hashes_in_destination' = <<>>
  /\ count' = ZeroCounts
  /\ idx' = 1
  /\ pc' = StartPc(files)
  /\ outcome' = [i \in DOMAIN files |-> Pending]
  /\ UNCHANGED <<files, dest, exc, media_type, year_or_status, target_folder,
                 current_file_hash, dest_path_final, counter, faultsLeft>>

Next ==
  \/ Classify
  \/ Hash
  \/ Conflict
  \/ Convert
  \/ Move
  \/ Except
  \/ Vanish
  \/ Summary
  \/ Rerun

Spec == Init /\ [][Next]_vars

OneFileSpec == InitOneFile /\ [][Next]_vars

\* the steps of the interpreter running sort_photos
Step == Classify \/ Hash \/ Conflict \/ Convert \/ Move \/ Except \/ Summary

\* sort_photos is sequential, blocking code: as long as a step of the loop
\* body can be taken, one is taken.  Nothing obliges the environment to make
\* a file vanish or the user to start a second invocation.
LiveSpec == Init /\ [][Next]_vars /\ WF_vars(Step)

ExistingTreeSpec == InitExisting /\ [][Next]_vars

TypeOK ==
  /\ idx \in 1..(Len(files) + 1)
  /\ pc \in {"classify", "hash", "conflict", "except", "summary"}
  /\ runState \in {"running", "done", "aborted"}
  /\ faultsLeft \in 0..MaxFaults

\* ---------------------------------------------------------------- claims
Processed(i) == outcome[i].result # "pending"

Committed(i) == outcome[i].result \in {"moved", "converted"}

NoFaultSoFar == faultsLeft = MaxFaults

\* two files of the walk with the same fingerprint resolved to the same folder
SameFingerprintAndBucket(i, j) ==
  /\ i < j
  /\ Processed(i) /\ Processed(j)
  /\ outcome[i].hash # None
  /\ outcome[i].hash = outcome[j].hash
  /\ outcome[i].folder = outcome[j].folder

\* destination entries of a folder that hold content c or its JPEG conversion
EntriesOf(folder, c) ==
  {p \in DOMAIN dest : p[1] = folder /\ dest[p] \in {c, Jpeg(c)}}

\* C1 as stated (here even without any injected failure, in a first run):
\* of two files with the same fingerprint and the same target folder the
\* later one is deleted as a duplicate, never placed in the destination
\* tree, and the folder holds exactly one entry for the content.
C1_Original ==
  (run = 1 /\ runState = "done" /\ NoFaultSoFar) =>
    \A i, j \in DOMAIN files :
      SameFingerprintAndBucket(i, j) =>
        /\ outcome[j].result = "duplicate_deleted"
        /\ outcome[j].placed = None
        /\ ~srcExists[j]
        /\ Cardinality(EntriesOf(outcome[i].folder, outcome[i].hash)) = 1

\* C1 amended: if the earlier of two files with the same fingerprint and the
\* same target folder was committed into that folder, the later one is
\* detected as a duplicate and never placed in the destination tree; its
\* source is removed unless the removal itself fails; it is the only
\* same-fingerprint file of the run committed into that folder (and, in a
\* first run, the folder then holds exactly one entry for the content).
C1_DedupWithinRun ==
  \A i, j \in DOMAIN files :
    (SameFingerprintAndBucket(i, j) /\ Committed(i)) =>
      /\ outcome[i].placed = outcome[i].folder
      /\ outcome[j].result \in {"duplicate_deleted", "duplicate_delete_failed"}
      /\ outcome[j].placed = None
      /\ outcome[j].result = "duplicate_deleted" => ~srcExists[j]
      /\ run = 1 => Cardinality(EntriesOf(outcome[i].folder, outcome[i].hash)) = 1

C1_Witness ==
  /\ run = 1 /\ runState = "done" /\ Len(files) = 2
  /\ SameFingerprintAndBucket(1, 2)
  /\ outcome[1].result = "converted"
  /\ outcome[2].result = "duplicate_deleted"
  /\ ~srcExists[2]

Recognized(f) == f.ext \in IMAGE_EXTENSIONS \cup VIDEO_EXTENSIONS \cup ARCHIVE_EXTENSIONS

\* C2: after a second, failure-free run over a copy of the input of a
\* failure-free first run, every recognized file (a HEIC one if it is
\* decodable, so that the first run could convert it) was deleted from the
\* source as a duplicate and nothing was added to the destination tree.
C2_SecondRunOnlyDeletes ==
  (run = 2 /\ runState = "done" /\ NoFaultSoFar) =>
    \A i \in DOMAIN files :
      (Recognized(files[i]) /\ DecodeOf(files[i].content) = "ok") =>
        /\ outcome[i].result = "duplicate_deleted"
        /\ outcome[i].placed = None
        /\ ~srcExists[i]

\* the part of C2 that the code does meet: files that are not HEIC/HEIF
C2_NonHeicSecondRun ==
  (run = 2 /\ runState = "done" /\ NoFaultSoFar) =>
    \A i \in DOMAIN files :
      (Recognized(files[i]) /\ files[i].ext \notin HEIC_EXTENSIONS) =>
        /\ outcome[i].result = "duplicate_deleted"
        /\ ~srcExists[i]

SumCounts(c) ==
  c.moved_count + c.video_moved_count + c.heic_converted_count + c.no_date_count
  + c.archive_moved_count + c.deleted_non_media_count + c.error_count
  + c.skipped_count + c.duplicate_deleted_count

\* C3 (here for a failure-free run over archives only): at the end of a run
\* the outcome counters add up to the number of discovered files.
C3_OneCounterPerFile ==
  (runState = "done" /\ NoFaultSoFar
     /\ \A i \in DOMAIN files : files[i].ext \in ARCHIVE_EXTENSIONS) =>
    SumCounts(count) = Len(files)

\* C4: no per-file failure terminates the run before its summary.
C4_RunNeverAborts == runState # "aborted"

HasValidTag(c) == ValidDateStr(ExifOf(c).dto) \/ ValidDateStr(ExifOf(c).dt)

ExpectedName(f, heic, k) ==
  IF k = 0 THEN f.stem \o (IF heic THEN ".jpg" ELSE f.ext)
  ELSE f.stem \o "_" \o ToString(k) \o (IF heic THEN ".jpg" ELSE f.ext)

\* C6 as stated (for failure-free executions and, for HEIC, decodable
\* sources): an item whose desired name is occupied by a file of different
\* content is committed under a counter-suffixed name.
C6_Original ==
  \A i \in DOMAIN files :
    (Processed(i) /\ outcome[i].conflict /\ NoFaultSoFar
       /\ (files[i].ext \in HEIC_EXTENSIONS => DecodeOf(files[i].content) = "ok")) =>
      /\ Committed(i)
      /\ \E k \in 1..Cardinality(DOMAIN dest) :
           outcome[i].name = ExpectedName(files[i], files[i].ext \in HEIC_EXTENSIONS, k)

\* C6 amended: whenever an item is committed (moved or converted), its name
\* is the first unoccupied one of <stem><ext>, <stem>_1<ext>, <stem>_2<ext>,
\* ... (".jpg" as <ext> for a HEIC conversion), so a counter-suffixed name
\* with the smallest free k >= 1 if the desired name was occupied by a file
\* of different content; the commit creates exactly that entry and leaves
\* every existing entry with its content.  (An item is not committed but
\* deleted as a duplicate when an occupied name tried on the way holds a
\* file with the item's fingerprint.)
C6_SmallestFreeSuffix ==
  [][ (pc = "conflict" /\ outcome[idx].result = "pending"
         /\ outcome'[idx].result \in {"moved", "converted"}) =>
        LET name == outcome'[idx].name
            Taken(k) == <<target_folder, ExpectedName(Cur, IsHeic, k)>> \in DOMAIN dest
        IN /\ \E k \in 0..Cardinality(DOMAIN dest) :
                /\ name = ExpectedName(Cur, IsHeic, k)
                /\ ~Taken(k)
                /\ \A j \in 0..(k - 1) : Taken(j)
           /\ outcome[idx].conflict => name # ExpectedName(Cur, IsHeic, 0)
           /\ outcome'[idx].placed = target_folder
           /\ DOMAIN dest' = DOMAIN dest \cup {<<target_folder, name>>}
           /\ \A p \in DOMAIN dest : dest'[p] = dest[p]
           /\ dest'[<<target_folder, name>>] =
                IF IsHeic THEN Jpeg(Cur.content) ELSE Cur.content
    ]_vars

C6_Witness ==
  /\ run = 1 /\ Len(files) = 2
  /\ FileName(files[1]) = "img.jpg" /\ FileName(files[2]) = "img.jpg"
  /\ files[1].content = "C" /\ files[2].content = "D"
  /\ outcome[2].conflict /\ outcome[2].result = "moved"
  /\ <<"no_date/small_0.5-1MB", "img.jpg">> \in DOMAIN dest
  /\ dest[<<"no_date/small_0.5-1MB", "img.jpg">>] = "C"
  /\ <<"no_date/small_0.5-1MB", "img_1.jpg">> \in DOMAIN dest
  /\ dest[<<"no_date/small_0.5-1MB", "img_1.jpg">>] = "D"

IsDupResult(r) == r \in {"duplicate_deleted", "duplicate_delete_failed"}

\* C7: when the source cannot be hashed (it is gone or the read fails) the
\* target becomes the errors folder whatever was resolved before, exactly
\* one error is counted by that step, and the item is treated as a duplicate
\* neither by the in-run check nor during conflict resolution.
C7_HashFailureToErrors ==
  [][ /\ (pc = "hash" /\ ~srcExists[idx]) => pc' \in {"conflict", "except"}
      /\ (pc = "hash" /\ pc' = "conflict") =>
           /\ current_file_hash' = None <=> (~srcExists[idx] \/ faultsLeft' < faultsLeft)
           /\ current_file_hash' = None =>
                /\ target_folder' = ERROR_DIR
                /\ count'.error_count = count.error_count + 1
                /\ count'.duplicate_deleted_count = count.duplicate_deleted_count
                /\ srcExists' = srcExists
                /\ hashes_in_destination' = hashes_in_destination
      /\ (pc = "conflict" /\ current_file_hash = None) =>
           /\ target_folder = ERROR_DIR
           /\ count'.duplicate_deleted_count = count.duplicate_deleted_count
           /\ ~IsDupResult(outcome'[idx].result)
    ]_vars

C7_Witness ==
  /\ pc = "conflict"
  /\ current_file_hash = None
  /\ year_or_status = "2020"
  /\ target_folder = ERROR_DIR
  /\ srcExists[idx]
  /\ Cur.content \in HashesOf(hashes_in_destination, "2020")
  /\ count.error_count = 1

\* C8 (the part about files already in the errors folder): when a HEIC
\* conversion fails, an error is counted, every file already in the
\* destination tree is kept with its content, and a source that could not
\* be relocated stays at its source path.
C8_Original ==
  [][ (pc = "conflict" /\ IsHeic /\ outcome[idx].result = "pending"
         /\ outcome'[idx].result \in {"convert_failed_relocated",
                                      "convert_failed_in_place"}) =>
        /\ count'.error_count = count.error_count + 1
        /\ \A p \in DOMAIN dest : p \in DOMAIN dest' /\ dest'[p] = dest[p]
        /\ srcExists'[idx] => (dest' = dest /\ srcExists[idx])
    ]_vars

\* C9 (for the permission-denied case it names): an item whose processing
\* ended in a permission error is counted as an error and is no longer at
\* its source path but in the errors folder.
C9_Original ==
  \A i \in DOMAIN files :
    outcome[i].result = "permission_denied" =>
      /\ count.error_count >= 1
      /\ ~srcExists[i]
      /\ \E p \in DOMAIN dest : p[1] = ERROR_DIR /\ dest[p] = files[i].content

\* C10: a HEIC source that exists and decodes is converted unless a failure
\* is injected; when the conversion has written its output, the target
\* folder has gained <stem>.jpg or <stem>_<k>.jpg holding the JPEG, existing
\* entries are untouched, the outcome is "converted", no error is counted,
\* and the source is gone unless its removal failed.
C10_ConvertedHeic ==
  [][ (pc = "conflict" /\ IsHeic
         /\ <<target_folder, dest_path_final>> \notin DOMAIN dest) =>
        LET path == <<target_folder, dest_path_final>>
            written == path \in DOMAIN dest'
        IN /\ (srcExists[idx] /\ DecodeOf(Cur.content) = "ok"
                 /\ faultsLeft' = faultsLeft /\ pc' # pc)
                => (written /\ ~srcExists'[idx])
           /\ written =>
                /\ dest'[path] = Jpeg(Cur.content)
                /\ \E k \in 0..Cardinality(DOMAIN dest) :
                     dest_path_final = ExpectedName(Cur, TRUE, k)
                /\ \A p \in DOMAIN dest : dest'[p] = dest[p]
                /\ outcome'[idx].result = "converted"
                /\ count'.heic_converted_count = count.heic_converted_count + 1
                /\ count'.error_count = count.error_count
                /\ srcExists'[idx] => faultsLeft' = faultsLeft - 1
           /\ (~written /\ pc' # pc) =>
                /\ outcome'[idx].result # "converted"
                /\ count'.heic_converted_count = count.heic_converted_count
                /\ count'.error_count = count.error_count + 1
    ]_vars

C10_Witness ==
  /\ run = 1 /\ Len(files) = 2
  /\ files[1] = [stem |-> "img", ext |-> ".heic", content |-> "D"]
  /\ outcome[1].result = "converted" /\ ~srcExists[1]
  /\ <<"no_date/small_0.5-1MB", "img.jpg">> \in DOMAIN dest
  /\ dest[<<"no_date/small_0.5-1MB", "img.jpg">>] = "jpeg(D)"
  /\ files[2].ext = ".heic"
  /\ outcome[2].result = "converted" /\ srcExists[2]
  /\ count.error_count = 0
  /\ count.heic_converted_count = 2

\* C11 as stated: once a file with an unrecognized extension has been
\* processed, it is no longer at its source path.
C11_Original ==
  \A i \in DOMAIN files :
    (~Recognized(files[i]) /\ Processed(i)) => ~srcExists[i]

\* C11 amended: a file with an unrecognized extension is finished by the
\* classification step itself: it is removed from the source unless the
\* removal fails (then it stays and one error is counted instead of a
\* deletion); the step computes no fingerprint, resolves no folder and leaves
\* the destination tree and every fingerprint set as they were; only
\* recognized files ever reach hashing, conflict resolution or the handlers.
C11_NonMediaDeleted ==
  [][ /\ pc \in {"hash", "conflict", "except"} => Recognized(Cur)
      /\ (pc = "classify" /\ ~Recognized(Cur) /\ outcome' # outcome) =>
           /\ idx' = idx + 1
           /\ pc' \in {"classify", "summary"}
           /\ dest' = dest
           /\ hashes_in_destination' = hashes_in_destination
           /\ current_file_hash' = None /\ target_folder' = None
           /\ outcome'[idx].hash = None /\ outcome'[idx].placed = None
           /\ outcome'[idx].folder = None
           /\ (srcExists[idx] /\ faultsLeft' = faultsLeft) =>
                /\ ~srcExists'[idx]
                /\ outcome'[idx].result = "deleted_non_media"
                /\ count' = Inc(count, "deleted_non_media_count")
           /\ (~srcExists[idx] \/ faultsLeft' < faultsLeft) =>
                /\ srcExists' = srcExists
                /\ outcome'[idx].result = "delete_failed"
                /\ count' = Inc(count, "error_count")
    ]_vars

C11_Witness ==
  /\ Len(files) = 2 /\ idx = 3
  /\ files[1].ext = ".zip" /\ files[2].ext = ".txt"
  /\ outcome[1].result = "moved"
  /\ outcome[2].result = "deleted_non_media"
  /\ ~srcExists[2]
  /\ count.deleted_non_media_count = 1 /\ count.error_count = 0
  /\ DOMAIN dest = {<<ARCHIVES_DIR, "img.zip">>}
  /\ DOMAIN hashes_in_destination = {ARCHIVES_DIR}

\* the size tier SizeCategorizer gives a content when stat succeeds
TierOf(c) == get_file_size_category(SizeOf(c), FALSE)

\* the capture year the tags of a content give (None when neither is valid)
TagYear(c) ==
  IF ValidDateStr(ExifOf(c).dto) THEN YearOf(ExifOf(c).dto)
  ELSE IF ValidDateStr(ExifOf(c).dt) THEN YearOf(ExifOf(c).dt)
  ELSE None

\* C12: the folder assigned by classification follows the decision table:
\* an archive is assigned the archives folder; an image whose date outcome is
\* a year Y is assigned folder Y; an image without a date, and every video
\* (whose date outcome is always "none"), is assigned no_date/<size tier>
\* (unknown_size only when the size could not be read); the "error" date
\* outcome is assigned the errors folder.  No video is ever placed in a year
\* folder: it is placed in the no_date folder assigned to it or, after a
\* later failure, in the errors folder; an archive likewise in archives or
\* errors.
C12_BucketAssignment ==
  [][ /\ (pc = "classify" /\ pc' = "hash") =>
           LET c == Cur.content
               statFailed == ~srcExists[idx] \/ faultsLeft' < faultsLeft
               noDate == JoinFolder(NO_DATE_DIR, TierOf(c))
               unknown == JoinFolder(NO_DATE_DIR, "unknown_size")
           IN /\ Cur.ext \in ARCHIVE_EXTENSIONS =>
                   (media_type' = "archive" /\ target_folder' = ARCHIVES_DIR)
              /\ Cur.ext \in VIDEO_EXTENSIONS =>
                   /\ media_type' = "video"
                   /\ year_or_status' = None
                   /\ target_folder' = IF statFailed THEN unknown ELSE noDate
              /\ Cur.ext \in IMAGE_EXTENSIONS =>
                   /\ media_type' = "image"
                   /\ (year_or_status' \notin {None, "error"}) =>
                        (year_or_status' = TagYear(c) /\ target_folder' = TagYear(c))
                   /\ year_or_status' = "error" => target_folder' = ERROR_DIR
                   /\ year_or_status' = None => target_folder' \in {noDate, unknown}
                   /\ (year_or_status' = None /\ faultsLeft' = faultsLeft) =>
                        target_folder' = noDate
      /\ \A i \in DOMAIN files :
           /\ (files[i].ext \in VIDEO_EXTENSIONS /\ outcome[i].placed # None) =>
                (IsNoDateFolder(outcome[i].placed) \/ outcome[i].placed = ERROR_DIR)
           /\ (files[i].ext \in ARCHIVE_EXTENSIONS /\ outcome[i].placed # None) =>
                outcome[i].placed \in {ARCHIVES_DIR, ERROR_DIR}
           /\ (outcome[i].placed \notin {None, ERROR_DIR, ARCHIVES_DIR}
                 /\ ~IsNoDateFolder(outcome[i].placed)) =>
                (files[i].ext \in IMAGE_EXTENSIONS
                   /\ outcome[i].placed = TagYear(files[i].content))
    ]_vars

C12_Witness ==
  /\ run = 1 /\ runState = "done" /\ Len(files) = 2
  /\ files[1].ext = ".mp4" /\ files[2] = [stem |-> "img", ext |-> ".jpg", content |-> "A"]
  /\ outcome[1].result = "moved" /\ outcome[2].result = "moved"
  /\ outcome[1].placed = "no_date/tiny_under_0.5MB"
  /\ outcome[2].placed = "2020"
  /\ dest[<<"2020", "img.jpg">>] = "A"
  /\ count.video_moved_count = 0

\* the file under processing is gone from its source path although this
\* run has not removed it (the program removes a source only in the step
\* that also finishes the file): it vanished after discovery
CurVanished == runState = "running" /\ idx \in DOMAIN files /\ ~srcExists[idx]

\* C13: while a vanished file is processed no error is counted and the
\* destination tree does not change, and its processing ends in the
\* skipped outcome with the skipped counter incremented by one.
C13_Original ==
  [][ CurVanished =>
        /\ count'.error_count = count.error_count
        /\ dest' = dest
        /\ idx' = idx + 1 =>
             /\ outcome'[idx].result = "not_found"
             /\ count'.skipped_count = count.skipped_count + 1
    ]_vars

Digits == {"0", "1", "2", "3", "4", "5", "6", "7", "8", "9"}

FourDigitStrings ==
  {a \o b \o c \o d : a \in Digits, b \in Digits, c \in Digits, d \in Digits}

\* a folder of the destination root that is none of the fixed ones
IsYearFolder(folder) ==
  folder \notin {None, ERROR_DIR, ARCHIVES_DIR} /\ ~IsNoDateFolder(folder)

\* C14: every resolved capture year, and so every year folder a file is
\* assigned to or placed in, is a string of four decimal digits.
C14_Original ==
  /\ year_or_status \notin {None, "error"} => year_or_status \in FourDigitStrings
  /\ IsYearFolder(target_folder) => target_folder \in FourDigitStrings
  /\ \A p \in DOMAIN dest : IsYearFolder(p[1]) => p[1] \in FourDigitStrings

\* the acceptance test as C15 words it, with Python's 0-based indexes
Accepted(v) ==
  /\ \A i \in DOMAIN v : Len(v[i]) = 1
  /\ Len(v) >= 10
  /\ v[4 + 1] = ":"
  /\ v[7 + 1] = ":"

Leading4(v) == Spell(SubSeq(v, 1, 4))

ExpectedYear(e) ==
  IF Accepted(e.dto) THEN Leading4(e.dto)
  ELSE IF Accepted(e.dt) THEN Leading4(e.dt)
  ELSE None

\* C15: when an image that exists and decodes is classified and no failure
\* is injected, the date outcome is the leading 4 characters of tag 36867 if
\* that value is a str of length >= 10 with ":" at indexes 4 and 7, else the
\* leading 4 characters of tag 306 under the same test, else "no date"; with
\* both tags valid tag 36867 wins.  An injected failure can only turn the
\* outcome into "no date".
C15_DateExtraction ==
  [][ (pc = "classify" /\ pc' = "hash" /\ Cur.ext \in IMAGE_EXTENSIONS
         /\ srcExists[idx] /\ DecodeOf(Cur.content) = "ok") =>
        LET e == ExifOf(Cur.content)
        IN /\ faultsLeft' = faultsLeft => year_or_status' = ExpectedYear(e)
           /\ year_or_status' \in {None, ExpectedYear(e)}
           /\ (Accepted(e.dto) /\ Accepted(e.dt) /\ faultsLeft' = faultsLeft) =>
                year_or_status' = Leading4(e.dto)
    ]_vars

\* tag 36867 has its second separator wrong, tag 306 is valid: the file is
\* filed under the year of tag 306
C15_Witness ==
  /\ files[1].ext = ".jpg"
  /\ files[1].content = TagContent(MkTag(<<"2","0","2","1">>, ":", "-", 10),
                                   MkTag(<<"1","9","9","9">>, ":", ":", 10))
  /\ outcome[1].result = "moved"
  /\ outcome[1].placed = "1999"
  /\ <<"1999", "img.jpg">> \in DOMAIN dest

\* the tier table as C16 words it, on byte sizes
ExpectedTier(s) ==
  IF s < 524288 THEN "tiny_under_0.5MB"
  ELSE IF s < 1048576 THEN "small_0.5-1MB"
  ELSE IF s < 2097152 THEN "medium_1-2MB"
  ELSE IF s < 5242880 THEN "large_2-5MB"
  ELSE IF s < 10485760 THEN "xlarge_5-10MB"
  ELSE "huge_over_10MB"

\* C16: when classification assigns a no_date folder, its size tier is the
\* one the table gives for the file's byte size if the size could be read,
\* and unknown_size if it could not (the stat call fails or the file is
\* gone); the step counts one no_date item and, unknown_size included, no
\* error.
C16_SizeTier ==
  [][ (pc = "classify" /\ pc' = "hash" /\ IsNoDateFolder(target_folder')) =>
        LET s == SizeOf(Cur.content)
            tier == JoinFolder(NO_DATE_DIR, ExpectedTier(s))
            unknown == JoinFolder(NO_DATE_DIR, "unknown_size")
        IN /\ target_folder' \in {tier, unknown}
           /\ (srcExists[idx] /\ faultsLeft' = faultsLeft) => target_folder' = tier
           /\ ~srcExists[idx] => target_folder' = unknown
           /\ target_folder' = unknown =>
                (~srcExists[idx] \/ faultsLeft' < faultsLeft)
           /\ count' = Inc(count, "no_date_count")
    ]_vars

\* a video of exactly 5 MiB is filed under xlarge_5-10MB
C16_Witness ==
  /\ files[1] = [stem |-> "img", ext |-> ".mp4", content |-> SizeContent(5242880)]
  /\ outcome[1].result = "moved"
  /\ outcome[1].placed = "no_date/xlarge_5-10MB"
  /\ count.error_count = 0 /\ count.no_date_count = 1

\* C17: no step of a run overwrites or removes a file of the destination
\* tree: every entry present before a step is present after it with the
\* same content.
C17_Original ==
  [][ \A p \in DOMAIN dest : p \in DOMAIN dest' /\ dest'[p] = dest[p] ]_vars

\* a step that commits the current item into its target folder
CommitsCur ==
  /\ pc = "conflict"
  /\ <<target_folder, dest_path_final>> \notin DOMAIN dest
  /\ <<target_folder, dest_path_final>> \in DOMAIN dest'
  /\ outcome'[idx].result \in {"moved", "converted"}
  /\ outcome'[idx].placed = target_folder

\* C18: a step adds a fingerprint to a folder's set only if it is the
\* successful move or conversion of the current item into that folder and
\* the fingerprint is that item's; a step in which the commit fails leaves
\* every set as it was; and the in-run check deletes (or tries to delete) a
\* file as a duplicate only if an earlier file of this run with the same
\* fingerprint was committed into the same folder.
C18_RecordedAfterCommit ==
  [][ /\ \A folder \in DOMAIN hashes_in_destination' :
           \A h \in hashes_in_destination'[folder] :
             h \notin HashesOf(hashes_in_destination, folder) =>
               (CommitsCur /\ folder = target_folder /\ h = current_file_hash)
      /\ (pc = "conflict" /\ pc' # "conflict" /\ ~CommitsCur) =>
           hashes_in_destination' = hashes_in_destination
      /\ (pc = "except") => hashes_in_destination' = hashes_in_destination
      /\ (pc = "hash" /\ IsDupResult(outcome'[idx].result)) =>
           \E i \in 1..(idx - 1) :
             /\ Committed(i)
             /\ outcome[i].hash = outcome'[idx].hash
             /\ outcome[i].placed = target_folder
    ]_vars

\* the move of the first of two identical files failed, so the second one is
\* not a duplicate and is moved
C18_Witness ==
  /\ Len(files) = 2 /\ run = 1
  /\ SameFingerprintAndBucket(1, 2)
  /\ outcome[1].result = "permission_denied" /\ srcExists[1]
  /\ outcome[2].result = "moved"
  /\ outcome[2].name = "img.jpg"
  /\ outcome[2].hash \in HashesOf(hashes_in_destination, outcome[2].folder)

\* the step that finds the current item to be a duplicate
FindsDuplicate ==
  /\ pc \in {"hash", "conflict"}
  /\ IsDupResult(outcome'[idx].result)

\* C19: the step that finds an item to be a duplicate, by the in-run set or
\* by a match with an existing file, changes nothing in the destination tree
\* and no fingerprint set; no other source file is touched; the item's own
\* source is removed, unless that removal fails.
C19_DuplicateFrame ==
  [][ FindsDuplicate =>
        /\ dest' = dest
        /\ hashes_in_destination' = hashes_in_destination
        /\ \A i \in DOMAIN files : i # idx => srcExists'[i] = srcExists[i]
        /\ outcome'[idx].placed = None
        /\ outcome'[idx].result = "duplicate_deleted" =>
             (srcExists[idx] /\ ~srcExists'[idx]
                /\ count' = Inc(count, "duplicate_deleted_count"))
        /\ outcome'[idx].result = "duplicate_delete_failed" =>
             (srcExists' = srcExists /\ count' = Inc(count, "error_count"))
    ]_vars

\* second run: the first file matches the file the first run left at its
\* desired name and is deleted; the folder's set of this run stays empty
C19_Witness ==
  /\ run = 2 /\ idx = 2
  /\ files[1] = [stem |-> "img", ext |-> ".jpg", content |-> "A"]
  /\ outcome[1].result = "duplicate_deleted"
  /\ ~srcExists[1]
  /\ dest[<<"2020", "img.jpg">>] = "A"
  /\ HashesOf(hashes_in_destination, "2020") = {}

\* C20: when a source file is deleted as a duplicate, its target folder
\* holds at that moment (and still holds after the step) a file with the
\* same content or the JPEG converted from a HEIC source with the same
\* content; when the duplicate was found by a match during conflict
\* resolution, the file at the tried name is itself content-identical.
C20_DuplicateHasCopy ==
  [][ (pc \in {"hash", "conflict"}
         /\ outcome'[idx].result = "duplicate_deleted") =>
        /\ ~srcExists'[idx]
        /\ EntriesOf(target_folder, Cur.content) # {}
        /\ \E p \in DOMAIN dest' :
             p[1] = target_folder /\ dest'[p] \in {Cur.content, Jpeg(Cur.content)}
        /\ pc = "conflict" => dest[<<target_folder, dest_path_final>>] = Cur.content
        /\ pc = "hash" =>
             Cur.content \in HashesOf(hashes_in_destination, target_folder)
    ]_vars

\* the second of two identical JPEG files is deleted in the first run while
\* the first one lies in their year folder
C20_Witness ==
  /\ run = 1 /\ Len(files) = 2
  /\ files[1] = [stem |-> "img", ext |-> ".jpg", content |-> "A"]
  /\ files[2] = files[1]
  /\ outcome[1].result = "moved"
  /\ outcome[2].result = "duplicate_deleted"
  /\ ~srcExists[2]
  /\ DOMAIN dest = {<<"2020", "img.jpg">>}
  /\ dest[<<"2020", "img.jpg">>] = "A"

\* C21: every run reaches its end with every discovered file in a terminal
\* state (so each conflict-resolution loop has ended, at a free name or at a
\* fingerprint match).
C21_Original ==
  <>(runState = "done" /\ \A i \in DOMAIN files : Processed(i))

\* one iteration of a conflict-resolution loop: the tried name is occupied
InConflictLoop ==
  pc = "conflict" /\ <<target_folder, dest_path_final>> \in DOMAIN dest

\* the iteration moves on to the next counter-suffixed candidate
TriesNextName ==
  /\ pc' = "conflict"
  /\ dest_path_final' = ExpectedName(Cur, IsHeic, counter)
  /\ counter' = counter + 1
  /\ srcExists' = srcExists
  /\ dest' = dest
  /\ count' = count
  /\ outcome'[idx].result = "pending"

\* C22: in an iteration of a conflict-resolution loop in which the hash of
\* the existing file cannot be computed (a failure is injected and it is not
\* the failure of a duplicate's removal), the source is not treated as a
\* duplicate and the next counter-suffixed name is tried; a source without a
\* fingerprint is never treated as a duplicate, whatever happens to the
\* existing file; and a duplicate is found only when the existing file was
\* hashed and its hash is the source's.
C22_UnhashableExistingNoMatch ==
  [][ InConflictLoop =>
        /\ (faultsLeft' < faultsLeft
              /\ outcome'[idx].result # "duplicate_delete_failed") => TriesNextName
        /\ current_file_hash = None => TriesNextName
        /\ IsDupResult(outcome'[idx].result) =>
             /\ current_file_hash # None
             /\ dest[<<target_folder, dest_path_final>>] = current_file_hash
             /\ outcome'[idx].result = "duplicate_deleted" => faultsLeft' = faultsLeft
    ]_vars

\* the existing file at the desired name has the source's content
\* but could not be read, so the source is about to be moved next to it
C22_Witness ==
  /\ run = 1 /\ pc = "conflict" /\ idx = 1
  /\ files[1] = [stem |-> "img", ext |-> ".jpg", content |-> "D"]
  /\ current_file_hash = "D"
  /\ target_folder = "no_date/small_0.5-1MB"
  /\ <<target_folder, "img.jpg">> \in DOMAIN dest
  /\ dest[<<target_folder, "img.jpg">>] = "D"
  /\ dest_path_final = "img_1.jpg" /\ counter = 2
  /\ srcExists[1]
  /\ faultsLeft = MaxFaults - 1

\* C23: every element of every folder's fingerprint set is the fingerprint
\* of a file of this run that was moved or converted into that folder; none
\* is the "no fingerprint" value.
C23_Original ==
  \A folder \in DOMAIN hashes_in_destination :
    \A h \in hashes_in_destination[folder] :
      /\ h # None
      /\ \E i \in DOMAIN files :
           /\ Committed(i)
           /\ files[i].content = h
           /\ outcome[i].placed = folder

====
